---- MODULE Spec2Model ----
(***************************************************************************)
(* Model of the two notebooks of dl-general-messaround.                    *)
(*                                                                         *)
(*  - notebooks/pruning/pruning_comparison.ipynb: the `models` dict (the   *)
(*    variant registry), compare_modelsize and compare_benchmarks.         *)
(*    Specification: Spec.                                                 *)
(*  - the hyperbolic notebook (unnamed/part_000): train and the two cells  *)
(*    that call it.  Specification: TrainSpec.                             *)
(*                                                                         *)
(* Tensors are abstracted to small integers, wall-clock times to a fixed   *)
(* number per architecture; everything else follows the notebooks' code.   *)
(***************************************************************************)
EXTENDS Integers, Sequences, FiniteSets, TLC

\* ------------------------------------------------------------------ bounds
\* longest sequence of register operations explored (the initial dict
\* literal counts as the first one)
MaxRegs == 4
\* largest `batches` argument given to compare_benchmarks
MaxBatches == 2

\* loader lengths explored: every k * PrintEvery + d with k in 0..MaxMult and
\* d in -MaxSlack..MaxSlack that is at least 1
MaxMult == 2
MaxSlack == 1

\* ------------------------------------------------- pruning notebook: data
\* the labels the notebook registers
ModelNames == {"control", "torch_local_unstruct", "torch_local_struct", "high_level_tp"}

\* the constructed architectures: a full resnet18 (the torch.nn.utils.prune
\* variants only zero weights and keep every shape) and the resnet18 that
\* torch_pruning reduced structurally
ModelKinds == {"resnet18", "resnet18_half"}

\* model.parameters(): <<nelement, element_size>> per tensor.  All float32;
\* the element counts are the #Params the notebook prints.
Parameters(model) ==
    IF model = "resnet18"
    THEN << <<11689512, 4>> >>
    ELSE << <<3021512, 4>> >>

\* model.buffers(): the BatchNorm running_mean / running_var (float32) and
\* the 20 num_batches_tracked counters (int64)
Buffers(model) ==
    IF model = "resnet18"
    THEN << <<4800, 4>>, <<4800, 4>>, <<20, 8>> >>
    ELSE << <<2336, 4>>, <<2336, 4>>, <<20, 8>> >>

\* ------------------------------------------------------------- variables
VARIABLES
    models,        \* the registry dict: sequence of [name, model], in dict order
    history,       \* every register operation so far, in order (ghost)
    lastOp,        \* the operation that ran last
    rng,           \* state of torch's global random generator
    benchInputs,   \* the tensors torch.randn produced in the last compare_benchmarks
    results,       \* the `results` list of the last compare_benchmarks
    latencyTable,  \* what compare.print() showed: one column per description
    sizeLines,     \* the lines compare_modelsize printed
    benchCall,     \* the last compare_benchmarks call tracked: arguments and outcome
    prevBench      \* the tracked call before it: arguments and inputs (ghost)

benchVars == <<benchCall, prevBench>>

pruneVars == <<models, history, lastOp, rng, benchInputs, results, latencyTable, sizeLines,
               benchVars>>

VARIABLES
    pc,            \* "idle", "training" (inside train) or "finished"
    variant,       \* which net the running cell trains
    manifold,      \* the manifold argument of train
    loaderLen,     \* number of batches trainloader yields per epoch
    epoch,         \* the outer loop variable
    i,             \* index enumerate gives the next batch
    running_loss,  \* the accumulator of train
    grad,          \* the gradient accumulated in the parameters' .grad
    optSteps,      \* optimizer steps applied by this call
    reports,       \* the progress lines printed by this call
    finishedLines, \* number of "Finished Training" lines printed by this call
    step,          \* what the last executed loop body did
    sinceReport,   \* losses of the steps since the previous report (ghost)
    sinceEpoch     \* the same, restarted at every epoch start too (ghost)

trainVars == <<pc, variant, manifold, loaderLen, epoch, i, running_loss, grad,
               optSteps, reports, finishedLines, step, sinceReport, sinceEpoch>>

vars == <<pruneVars, trainVars>>

\* ------------------------------------------------------- the models dict
\* names of a dict, in iteration order
Keys(d) == [k \in 1..Len(d) |-> d[k].name]

KeySet(d) == {d[k].name : k \in 1..Len(d)}

\* mutant: an assignment always adds an entry
DictSetAppend(d, name, model) == Append(d, [name |-> name, model |-> model])

\* mutant: an assignment to a present key moves the key to the end
DictSetMoveToEnd(d, name, model) ==
    Append(SelectSeq(d, LAMBDA e : e.name # name), [name |-> name, model |-> model])

\* models[name] = model
DictSet(d, name, model) ==
    IF name \in KeySet(d)
    THEN [k \in 1..Len(d) |->
            IF d[k].name = name THEN [name |-> name, model |-> model] ELSE d[k]]
    ELSE Append(d, [name |-> name, model |-> model])

\* --------------------------------------------------------- model size
RECURSIVE SumBytes(_, _)
\* the accumulation loop `size += t.nelement() * t.element_size()`
SumBytes(tensors, k) ==
    IF k > Len(tensors) THEN 0
    ELSE tensors[k][1] * tensors[k][2] + SumBytes(tensors, k + 1)

MiB == 1024 * 1024

\* f"{v:.3f}" of v = bytes / 1024**2, as the number of thousandths printed.
\* The quotient by a power of two is exact in binary floating point, so the
\* printed decimal is the exact value rounded half-to-even.
Fmt3(bytes) ==
    LET q    == bytes \div MiB
        r    == bytes % MiB
        t    == (r * 1000) \div MiB
        rem  == (r * 1000) % MiB
        base == q * 1000 + t
    IN  IF 2 * rem > MiB \/ (2 * rem = MiB /\ base % 2 = 1) THEN base + 1 ELSE base

\* mutant: the buffers are left out of the size
SizeAllParamsOnly(model) == SumBytes(Parameters(model), 1)

\* param_size + buffer_size of one model, in bytes
SizeAll(model) == SumBytes(Parameters(model), 1) + SumBytes(Buffers(model), 1)

RECURSIVE SizeLoop(_, _)
\* the loop over models.items() of compare_modelsize: one printed line each
SizeLoop(d, k) ==
    IF k > Len(d) THEN <<>>
    ELSE <<[name |-> d[k].name, mb |-> Fmt3(SizeAll(d[k].model)), unit |-> "MB"]>>
         \o SizeLoop(d, k + 1)

\* ---------------------------------------------------------- benchmarks
\* torch.manual_seed(0)
ManualSeed == 0

\* the generator's state after one more torch.randn
RngNext(s) == (5 * s + 3) % 16

\* the tensor torch.randn returns from generator state s
Randn(s) == RngNext(s)

\* blocked_autorange's measured time of model(x), in tenths of a millisecond
\* (the notebook's tables: 8.6 ms and 3.4 ms)
Latency(model) == IF model = "resnet18" THEN 86 ELSE 34

\* mutant: the measurement is described by the table's label
TimerLabelled(e, x, b) ==
    [label |-> "Model comparison", sub_label |-> "Inference",
     description |-> "Model comparison", x |-> x, model |-> e.model,
     batch |-> b, time |-> Latency(e.model)]

\* benchmark.Timer(stmt='model(x)', globals={'x': x, 'model': model}, ...,
\* description=modelname).blocked_autorange(min_run_time=1)
Timer(e, x, b) ==
    [label |-> "Model comparison", sub_label |-> "Inference",
     description |-> e.name, x |-> x, model |-> e.model,
     batch |-> b, time |-> Latency(e.model)]

RECURSIVE ModelLoopRegen(_, _, _, _)
\* mutant: the input is changed from one variant to the next
ModelLoopRegen(d, k, x, b) ==
    IF k > Len(d) THEN <<>>
    ELSE <<Timer(d[k], x, b)>> \o ModelLoopRegen(d, k + 1, Randn(x), b)

RECURSIVE ModelLoop(_, _, _, _)
\* `for modelname, model in models.items(): results.append(...)`
ModelLoop(d, k, x, b) ==
    IF k > Len(d) THEN <<>>
    ELSE <<Timer(d[k], x, b)>> \o ModelLoop(d, k + 1, x, b)

RECURSIVE BatchLoop(_, _, _, _)
\* `for _ in range(batches)`: one randn, then the loop over the models.
\* Yields the results appended, the inputs generated and the generator state.
BatchLoop(d, b, batches, s) ==
    IF b >= batches THEN [results |-> <<>>, inputs |-> <<>>, rng |-> s]
    ELSE LET x    == Randn(s)
             rest == BatchLoop(d, b + 1, batches, RngNext(s))
         IN  [results |-> ModelLoop(d, 1, x, b) \o rest.results,
              inputs  |-> <<x>> \o rest.inputs,
              rng     |-> rest.rng]

RECURSIVE Descriptions(_, _, _)
\* the distinct descriptions of the measurements, in order of first appearance
Descriptions(rs, k, seen) ==
    IF k > Len(rs) THEN <<>>
    ELSE IF rs[k].description \in seen THEN Descriptions(rs, k + 1, seen)
    ELSE <<rs[k].description>> \o Descriptions(rs, k + 1, seen \cup {rs[k].description})

\* benchmark.Compare(results) followed by print(): the measurements with the
\* same label, sub_label and description are merged into one table cell
Compare(rs) ==
    LET ds == Descriptions(rs, 1, {})
    IN  [c \in 1..Len(ds) |->
            LET same == SelectSeq(rs, LAMBDA r : r.description = ds[c])
            IN  [description |-> ds[c], sub_label |-> same[1].sub_label,
                 merged |-> Len(same), time |-> same[1].time]]

\* mutant: the generator is left as it is
TorchManualSeedKept(s, seed) == s

\* torch.manual_seed(seed): the generator's state becomes the seed's,
\* whatever it was
TorchManualSeed(s, seed) == seed

\* compare_benchmarks' loops when the failAt-th timed call model(x) raises
\* (failAt = 0: none does).  The exception leaves both loops at once: the
\* batches up to the failing one have drawn their input, the calls before
\* the failing one have appended their measurement.
BenchRun(d, batches, failAt, s) ==
    LET begun == IF failAt = 0 THEN batches ELSE ((failAt - 1) \div Len(d)) + 1
        run   == BatchLoop(d, 0, begun, s)
    IN  [results |-> IF failAt = 0 THEN run.results
                     ELSE SubSeq(run.results, 1, failAt - 1),
         inputs  |-> run.inputs,
         rng     |-> run.rng,
         raised  |-> failAt # 0]

\* mutant: the table of what was measured is printed even after a failure
ReportPartial(run) == Compare(run.results)

\* `compare = benchmark.Compare(results); compare.print()`, the statements
\* after the loops: not reached when an exception left the loops
Report(run) == IF run.raised THEN <<>> ELSE Compare(run.results)

\* ------------------------------------------------- hyperbolic notebook: data
\* `for epoch in range(2)`
Epochs == 2
\* `if i % 2000 == 1999`
PrintEvery == 2000
PrintAt == 1999
\* `running_loss / 2000`
PrintDivisor == 2000

Manifolds == {"PoincareBall", "Euclidean"}

\* len(trainloader) of the runs explored
LoaderLens ==
    {n \in {k * PrintEvery + d : k \in 0..MaxMult, d \in (0 - MaxSlack)..MaxSlack} : n >= 1}

\* pixel values after Normalize((0.5,..), (0.5,..)), in thousandths
InputVals == <<0 - 1000, 0, 500, 1000>>

\* the batch enumerate yields at index k of an epoch.  The loader shuffles;
\* its order is abstracted to a fixed one per epoch.
Batch(e, k) ==
    [inputs |-> InputVals[((k + e) % Len(InputVals)) + 1], labels |-> (k + e) % 2]

\* manifold.expmap of a tangent vector at the origin, in thousandths, one
\* component along man_dim.  PoincareBall: tanh(sqrt(c)|v|) v / (sqrt(c)|v|)
\* with c = softplus(1.0), the Curvature default; Euclidean: v.
Expmap(m, v) ==
    IF m = "Euclidean" THEN v
    ELSE CASE v = 0 -> 0
           [] v = 500 -> 452
           [] v = 1000 -> 712
           [] v = 0 - 500 -> 0 - 452
           [] v = 0 - 1000 -> 0 - 712

\* criterion(outputs.tensor, labels): a positive scalar, smaller when the
\* output's sign agrees with the label
Criterion(outputs, labels) == IF (outputs > 0) = (labels = 1) THEN 1 ELSE 2

\* `inputs, labels = data[0].to(device), data[1].to(device)`
ToDevice(s, data) == [s EXCEPT !.inputs = data.inputs, !.labels = data.labels]

\* mutant: the inputs are always mapped onto the Poincare ball
MoveToPoincare(s, m) ==
    [s EXCEPT !.manifold_inputs = Expmap("PoincareBall", s.inputs),
              !.ops = Append(@, "project")]

\* `tangents = TangentTensor(...); manifold_inputs = manifold.expmap(tangents)`
MoveToManifold(s, m) ==
    [s EXCEPT !.manifold_inputs = Expmap(m, s.inputs),
              !.ops = Append(@, "project")]

\* opt.zero_grad()
ZeroGrad(s) == [s EXCEPT !.grad = 0, !.ops = Append(@, "zero_grad")]

\* outputs = model(manifold_inputs); the net is a black box whose output
\* depends on what it is given
Forward(s) ==
    [s EXCEPT !.model_input = s.manifold_inputs, !.outputs = s.manifold_inputs,
              !.ops = Append(@, "forward")]

\* loss = criterion(outputs.tensor, labels)
Loss(s) == [s EXCEPT !.loss = Criterion(s.outputs, s.labels), !.ops = Append(@, "loss")]

\* loss.backward(): adds the loss's gradient to .grad
Backward(s) == [s EXCEPT !.grad = @ + s.loss, !.ops = Append(@, "backward")]

\* opt.step()
OptStep(s) == [s EXCEPT !.optSteps = @ + 1, !.ops = Append(@, "opt_step")]

\* running_loss += loss.item()
Accumulate(s) ==
    [s EXCEPT !.running_loss = @ + s.loss, !.ops = Append(@, "accumulate")]

\* mutant: `i % 2000 == 0`
ShouldPrintAtZero(k) == k % PrintEvery = 0

\* `if i % 2000 == 1999`
ShouldPrint(k) == k % PrintEvery = PrintAt

\* mutant: the sum is divided by the remainder tested, 1999
PrintStatisticsDivPrintAt(s, e, k) ==
    IF ShouldPrint(k)
    THEN [s EXCEPT !.reported = TRUE,
                   !.line = <<[epoch |-> e + 1, step |-> k + 1,
                               sum |-> s.running_loss, div |-> PrintAt]>>,
                   !.running_loss = 0]
    ELSE s

\* mutant: the accumulator is not reset after the print
PrintStatisticsNoReset(s, e, k) ==
    IF ShouldPrint(k)
    THEN [s EXCEPT !.reported = TRUE,
                   !.line = <<[epoch |-> e + 1, step |-> k + 1,
                               sum |-> s.running_loss, div |-> PrintDivisor]>>]
    ELSE s

\* the `if` block: print [epoch + 1, i + 1] and running_loss / 2000, then
\* reset the accumulator.  The line keeps the quotient as sum and divisor.
PrintStatistics(s, e, k) ==
    IF ShouldPrint(k)
    THEN [s EXCEPT !.reported = TRUE,
                   !.line = <<[epoch |-> e + 1, step |-> k + 1,
                               sum |-> s.running_loss, div |-> PrintDivisor]>>,
                   !.running_loss = 0]
    ELSE s

\* what a loop body starts from
StepStart(e, k) ==
    [index |-> k + 1, epoch |-> e, inputs |-> 0, labels |-> 0, manifold_inputs |-> 0,
     model_input |-> 0, outputs |-> 0, loss |-> 0, grad |-> grad,
     optSteps |-> optSteps, running_loss |-> running_loss, ops |-> <<>>,
     reported |-> FALSE, line |-> <<>>]

\* mutant: the optimizer steps before the gradients are propagated
LoopBodyStepFirst(m, e, k) ==
    PrintStatistics(
      Accumulate(Backward(OptStep(Loss(Forward(ZeroGrad(
        MoveToManifold(ToDevice(StepStart(e, k), Batch(e, k)), m))))))),
      e, k)

\* the body of `for i, data in enumerate(trainloader, 0)`
LoopBody(m, e, k) ==
    PrintStatistics(
      Accumulate(OptStep(Backward(Loss(Forward(ZeroGrad(
        MoveToManifold(ToDevice(StepStart(e, k), Batch(e, k)), m))))))),
      e, k)

NoStep ==
    [index |-> 0, epoch |-> 0, inputs |-> 0, labels |-> 0, manifold_inputs |-> 0,
     model_input |-> 0, outputs |-> 0, loss |-> 0, grad |-> 0,
     optSteps |-> 0, running_loss |-> 0, ops |-> <<>>,
     reported |-> FALSE, line |-> <<>>]

\* ghost: no step observed yet
EmptyWindow == [sum |-> 0, steps |-> 0, closed |-> FALSE]

\* ghost: the window after one more step of the given loss; a window that a
\* report closed starts again with the next step
Window(w, loss, reported) ==
    LET base == IF w.closed THEN EmptyWindow ELSE w
    IN  [sum |-> base.sum + loss, steps |-> base.steps + 1, closed |-> reported]

TrainInit ==
    /\ sinceReport = EmptyWindow
    /\ sinceEpoch = EmptyWindow
    /\ pc = "idle"
    /\ variant = "none"
    /\ manifold = "PoincareBall"
    /\ loaderLen = 1
    /\ epoch = 0
    /\ i = 0
    /\ running_loss = 0
    /\ grad = 0
    /\ optSteps = 0
    /\ reports = <<>>
    /\ finishedLines = 0
    /\ step = NoStep

\* entry of train(model, manifold, opt): the first epoch begins
Train(v, m, n) ==
    /\ pc \in {"idle", "finished"}
    /\ pc' = "training"
    /\ variant' = v
    /\ manifold' = m
    /\ loaderLen' = n
    /\ epoch' = 0
    /\ i' = 0
    /\ running_loss' = 0
    /\ grad' = 0
    /\ optSteps' = 0
    /\ reports' = <<>>
    /\ finishedLines' = 0
    /\ step' = NoStep
    /\ sinceReport' = EmptyWindow
    /\ sinceEpoch' = EmptyWindow
    /\ UNCHANGED pruneVars

\* the cell `manifold_poincare = PoincareBall(...); ...; train(net_poincare, ...)`
CellPoincare == \E n \in LoaderLens : Train("net_poincare", "PoincareBall", n)

\* the cell `manifold_euclid = PoincareBall(...); ...; train(net_euclid, ...)`
CellEuclid == \E n \in LoaderLens : Train("net_euclid", "PoincareBall", n)

\* train called with any manifold
TrainCall == \E m \in Manifolds, n \in LoaderLens : Train("other", m, n)

\* one pass through the body of the inner loop
TrainStep ==
    /\ pc = "training"
    /\ i < loaderLen
    /\ LET s == LoopBody(manifold, epoch, i)
       IN  /\ step' = s
           /\ running_loss' = s.running_loss
           /\ grad' = s.grad
           /\ optSteps' = s.optSteps
           /\ reports' = reports \o s.line
           /\ sinceReport' = Window(sinceReport, s.loss, s.reported)
           /\ sinceEpoch' = Window(sinceEpoch, s.loss, s.reported)
    /\ i' = i + 1
    /\ UNCHANGED <<pc, variant, manifold, loaderLen, epoch, finishedLines>>
    /\ UNCHANGED pruneVars

\* the loader is exhausted and another epoch follows: `running_loss = 0.0`
NextEpoch ==
    /\ pc = "training"
    /\ i = loaderLen
    /\ epoch + 1 < Epochs
    /\ epoch' = epoch + 1
    /\ i' = 0
    /\ running_loss' = 0
    /\ sinceEpoch' = EmptyWindow
    /\ UNCHANGED <<pc, variant, manifold, loaderLen, grad, optSteps, reports,
                   finishedLines, step, sinceReport>>
    /\ UNCHANGED pruneVars

\* mutant: the completion line and the return sit inside the epoch loop
FinishTrainingEarly ==
    /\ pc = "training"
    /\ i = loaderLen
    /\ pc' = "finished"
    /\ finishedLines' = finishedLines + 1
    /\ UNCHANGED <<variant, manifold, loaderLen, epoch, i, running_loss, grad,
                   optSteps, reports, step, sinceReport, sinceEpoch>>
    /\ UNCHANGED pruneVars

\* the last epoch is over: print("Finished Training")
FinishTraining ==
    /\ pc = "training"
    /\ i = loaderLen
    /\ epoch + 1 = Epochs
    /\ pc' = "finished"
    /\ finishedLines' = finishedLines + 1
    /\ UNCHANGED <<variant, manifold, loaderLen, epoch, i, running_loss, grad,
                   optSteps, reports, step, sinceReport, sinceEpoch>>
    /\ UNCHANGED pruneVars

\* ------------------------------------------------------------------ Init
PruneInit ==
    /\ models = <<[name |-> "control", model |-> "resnet18"]>>
    /\ history = <<[name |-> "control", model |-> "resnet18"]>>
    /\ lastOp = "init"
    /\ rng = ManualSeed
    /\ benchInputs = <<>>
    /\ results = <<>>
    /\ latencyTable = <<>>
    /\ sizeLines = <<>>
    /\ benchCall = [status |-> "none", batches |-> 0, failAt |-> 0,
                    variants |-> 0, rngBefore |-> ManualSeed]
    /\ prevBench = [ran |-> FALSE, batches |-> 0, variants |-> 0, inputs |-> <<>>]

\* --------------------------------------------------------------- actions
\* models[name] = model
Register(name, model) ==
    /\ Len(history) < MaxRegs
    /\ models' = DictSet(models, name, model)
    /\ history' = Append(history, [name |-> name, model |-> model])
    /\ lastOp' = "register"
    /\ UNCHANGED <<rng, benchInputs, results, latencyTable, sizeLines>>
    /\ UNCHANGED benchVars
    /\ UNCHANGED trainVars

\* compare_modelsize(models)
CompareModelsize ==
    /\ sizeLines' = SizeLoop(models, 1)
    /\ lastOp' = "compare_modelsize"
    /\ UNCHANGED <<models, history, rng, benchInputs, results, latencyTable>>
    /\ UNCHANGED benchVars
    /\ UNCHANGED trainVars

\* compare_benchmarks(models, batches)
CompareBenchmarks(batches) ==
    LET run == BatchLoop(models, 0, batches, ManualSeed)
    IN  /\ results' = run.results
        /\ benchInputs' = run.inputs
        /\ rng' = run.rng
        /\ latencyTable' = Compare(run.results)
        /\ lastOp' = "compare_benchmarks"
        /\ UNCHANGED <<models, history, sizeLines>>
        /\ UNCHANGED benchVars
        /\ UNCHANGED trainVars

\* the cell of the built-in pruning: both prune.random_* loops draw their
\* masks from the global generator (one draw stands for each loop), and the
\* two pruned models are stored
PytorchPruningCell ==
    /\ Len(history) + 2 <= MaxRegs
    /\ rng' = RngNext(RngNext(rng))
    /\ models' = DictSet(DictSet(models, "torch_local_unstruct", "resnet18"),
                         "torch_local_struct", "resnet18")
    /\ history' = history \o <<[name |-> "torch_local_unstruct", model |-> "resnet18"],
                               [name |-> "torch_local_struct", model |-> "resnet18"]>>
    /\ lastOp' = "register"
    /\ UNCHANGED <<benchInputs, results, latencyTable, sizeLines>>
    /\ UNCHANGED benchVars
    /\ UNCHANGED trainVars

\* the torch_pruning cell: example_inputs = torch.randn(1, 3, 224, 224), the
\* pruner's step, then models["high_level_tp"] = high_level_tp_model
TorchPruningCell ==
    /\ Len(history) < MaxRegs
    /\ rng' = RngNext(rng)
    /\ models' = DictSet(models, "high_level_tp", "resnet18_half")
    /\ history' = Append(history, [name |-> "high_level_tp", model |-> "resnet18_half"])
    /\ lastOp' = "register"
    /\ UNCHANGED <<benchInputs, results, latencyTable, sizeLines>>
    /\ UNCHANGED benchVars
    /\ UNCHANGED trainVars

\* compare_benchmarks(models, batches) in which the failAt-th timed call
\* raises (0: none); the call and the one before it are tracked
BenchmarkCall(batches, failAt) ==
    LET run == BenchRun(models, batches, failAt, TorchManualSeed(rng, ManualSeed))
    IN  /\ results' = run.results
        /\ benchInputs' = run.inputs
        /\ rng' = run.rng
        /\ latencyTable' = Report(run)
        /\ lastOp' = IF run.raised THEN "compare_benchmarks raised"
                                   ELSE "compare_benchmarks"
        /\ benchCall' = [status |-> IF run.raised THEN "raised" ELSE "completed",
                         batches |-> batches, failAt |-> failAt,
                         variants |-> Len(models), rngBefore |-> rng]
        /\ prevBench' = IF benchCall.status = "none" THEN prevBench
                        ELSE [ran |-> TRUE, batches |-> benchCall.batches,
                              variants |-> benchCall.variants, inputs |-> benchInputs]
        /\ UNCHANGED <<models, history, sizeLines>>
        /\ UNCHANGED trainVars

\* -------------------------------------------------------- specifications
Init == PruneInit /\ TrainInit

\* the pruning notebook
Next ==
    \/ \E name \in ModelNames, model \in ModelKinds : Register(name, model)
    \/ CompareModelsize
    \/ \E batches \in 0..MaxBatches : CompareBenchmarks(batches)

Spec == Init /\ [][Next]_vars

\* the pruning notebook's cells, run in any order, with calls of model(x)
\* that may fail
BenchNext ==
    \/ PytorchPruningCell
    \/ TorchPruningCell
    \/ \E batches \in 0..MaxBatches, failAt \in 0..(MaxBatches * Len(models)) :
          /\ failAt <= batches * Len(models)
          /\ BenchmarkCall(batches, failAt)

BenchSpec == Init /\ [][BenchNext]_vars

\* the hyperbolic notebook
TrainNext ==
    \/ CellPoincare
    \/ CellEuclid
    \/ TrainCall
    \/ TrainStep
    \/ NextEpoch
    \/ FinishTraining

TrainSpec == Init /\ [][TrainNext]_vars

\* ------------------------------------------------------- claims: Spec
\* names in order of first appearance in a sequence of register operations
RECURSIVE FirstSeen(_, _, _)
FirstSeen(h, k, seen) ==
    IF k > Len(h) THEN <<>>
    ELSE IF h[k].name \in seen THEN FirstSeen(h, k + 1, seen)
    ELSE <<h[k].name>> \o FirstSeen(h, k + 1, seen \cup {h[k].name})

\* the model the last register operation on `name` stored
LastRegistered(h, name) ==
    LET last == CHOOSE k \in 1..Len(h) :
                    /\ h[k].name = name
                    /\ \A j \in (k + 1)..Len(h) : h[j].name # name
    IN  h[last].model

\* the generator state reached from the seed by n calls of randn
RECURSIVE RngAfter(_)
RngAfter(n) == IF n = 0 THEN ManualSeed ELSE RngNext(RngAfter(n - 1))

BenchDone == lastOp = "compare_benchmarks"
SizeDone == lastOp = "compare_modelsize"

\* C1: when compare_benchmarks has completed with batches >= 1, the latency
\* table has exactly one record per registered label and the labels of its
\* records are exactly the registry's labels.
C1_LatencyLabels ==
    (BenchDone /\ Len(benchInputs) >= 1) =>
        /\ {latencyTable[c].description : c \in 1..Len(latencyTable)} = KeySet(models)
        /\ \A name \in KeySet(models) :
              Cardinality({c \in 1..Len(latencyTable) :
                              latencyTable[c].description = name}) = 1
        /\ Len(latencyTable) = Len(models)

C1_Witness ==
    /\ BenchDone
    /\ Len(benchInputs) = 2
    /\ Len(models) >= 2
    /\ Len(results) = 2 * Len(models)
    /\ Len(latencyTable) = Len(models)

\* C2: within one compare_benchmarks, every measurement of a batch index was
\* given the one tensor generated for that index: the generator was advanced
\* once per batch, and all variants of a batch saw the same, unmodified input.
C2_SameInputPerBatch ==
    BenchDone =>
        /\ rng = RngAfter(Len(benchInputs))
        /\ Len(results) = Len(benchInputs) * Len(models)
        /\ \A k \in 1..Len(results) :
              /\ results[k].batch \in 0..(Len(benchInputs) - 1)
              /\ results[k].x = benchInputs[results[k].batch + 1]
        /\ \A j, k \in 1..Len(results) :
              results[j].batch = results[k].batch => results[j].x = results[k].x

C2_Witness ==
    /\ BenchDone
    /\ Len(benchInputs) = 2
    /\ benchInputs[1] # benchInputs[2]
    /\ Len(models) >= 2
    /\ \E j, k \in 1..Len(results) :
          /\ results[j].description # results[k].description
          /\ results[j].batch = 1
          /\ results[k].batch = 1
          /\ results[j].x = results[k].x

\* C3: compare_modelsize prints exactly one size line per registered label,
\* with the registry's labels, and each value is the variant's parameter
\* bytes plus buffer bytes divided by 1024^2, in megabytes for every variant
\* (44.629 for a full resnet18 and 11.544 for the halved one, as printed).
C3_SizeRecords ==
    SizeDone =>
        /\ Len(sizeLines) = Len(models)
        /\ {sizeLines[k].name : k \in 1..Len(sizeLines)} = KeySet(models)
        /\ \A k \in 1..Len(sizeLines) :
              LET m == models[k].model
              IN  /\ sizeLines[k].name = models[k].name
                  /\ sizeLines[k].unit = "MB"
                  /\ sizeLines[k].mb = Fmt3(SumBytes(Parameters(m) \o Buffers(m), 1))
                  /\ m = "resnet18" => sizeLines[k].mb = 44629
                  /\ m = "resnet18_half" => sizeLines[k].mb = 11544

C3_Witness ==
    /\ SizeDone
    /\ Len(sizeLines) >= 2
    /\ \E j, k \in 1..Len(sizeLines) : sizeLines[j].mb # sizeLines[k].mb

\* C4: the registry iterates in the order in which its labels were first
\* registered, whatever register operations ran, and both comparators
\* report the variants in that order.
C4_InsertionOrder ==
    /\ Keys(models) = FirstSeen(history, 1, {})
    /\ (BenchDone /\ Len(benchInputs) >= 1) =>
          [c \in 1..Len(latencyTable) |-> latencyTable[c].description] = Keys(models)
    /\ SizeDone => [k \in 1..Len(sizeLines) |-> sizeLines[k].name] = Keys(models)

C4_Witness ==
    /\ BenchDone
    /\ Len(benchInputs) >= 1
    /\ Len(history) = 4
    /\ history[3].name \in {"control", "torch_local_unstruct"}
    /\ Keys(models) = <<"control", "torch_local_unstruct", "torch_local_struct">>
    /\ [c \in 1..Len(latencyTable) |-> latencyTable[c].description] = Keys(models)

\* C5: registering a present label replaces its model and adds no entry:
\* the registry has one entry per distinct label registered, each holding
\* the model of the last registration of that label.
C5_LastWriteWins ==
    /\ Cardinality(KeySet(models)) = Len(models)
    /\ Len(models) = Cardinality({history[k].name : k \in 1..Len(history)})
    /\ \A k \in 1..Len(models) :
          models[k].model = LastRegistered(history, models[k].name)

C5_Witness ==
    /\ lastOp = "register"
    /\ Len(history) > Len(models)
    /\ \E j \in 1..Len(history) :
          /\ j < Len(history)
          /\ history[j].name = history[Len(history)].name
          /\ history[j].model # history[Len(history)].model

\* -------------------------------------------------- claims: TrainSpec
StepDone == pc # "idle" /\ step.index > 0

\* C6: the running loss is zero right after every progress report: the
\* reset is part of the reporting step, so the step after a report starts
\* accumulating from zero.
C6_ResetWithReport ==
    /\ step.reported => running_loss = 0
    /\ (StepDone /\ i = step.index /\ step.index > 1
          /\ (step.index - 1) % PrintEvery = 0) => running_loss = step.loss

C6_Witness ==
    /\ StepDone
    /\ step.reported
    /\ step.line[1].sum > 0
    /\ running_loss = 0

\* C7: a progress report is printed on a step exactly when the step's
\* printed index i + 1 is a multiple of 2000.
C7_ReportOnMultiples ==
    /\ StepDone => (step.reported <=> step.index % PrintEvery = 0)
    /\ \A k \in 1..Len(reports) : reports[k].step % PrintEvery = 0
    /\ pc = "training" =>
          Len(reports) = epoch * (loaderLen \div PrintEvery) + (i \div PrintEvery)

C7_Witness ==
    /\ StepDone
    /\ step.reported
    /\ step.index = 2 * PrintEvery
    /\ epoch = 1
    /\ Len(reports) = 4

\* C8: with an identity projector (the Euclidean manifold) the batch given
\* to the model's forward call equals the batch read from the loader.
C8_IdentityProjector ==
    (StepDone /\ manifold = "Euclidean") =>
        /\ step.inputs = Batch(step.epoch, step.index - 1).inputs
        /\ step.model_input = step.inputs

C8_Witness ==
    /\ StepDone
    /\ manifold = "Euclidean"
    /\ step.inputs # 0
    /\ step.model_input = step.inputs

\* C9: the first variant is trained on a Poincare ball and the second on a
\* Euclidean manifold.
C9_ManifoldChoice ==
    /\ variant = "net_poincare" => manifold = "PoincareBall"
    /\ variant = "net_euclid" => manifold = "Euclidean"

\* C10 as stated: every step clears the gradients, projects the inputs,
\* computes the output and the loss, propagates, steps the optimizer once
\* and accumulates the loss, in this order.
C10_OrderAsClaimed ==
    StepDone =>
        step.ops = <<"zero_grad", "project", "forward", "loss", "backward",
                     "opt_step", "accumulate">>

\* C10 amended: every step projects the inputs, clears the gradients,
\* computes the output and the loss, propagates, steps the optimizer once
\* and accumulates the loss, in this order, each exactly once.
C10_StepOrder ==
    StepDone =>
        /\ step.ops = <<"project", "zero_grad", "forward", "loss", "backward",
                        "opt_step", "accumulate">>
        /\ step.grad = step.loss
        /\ step.optSteps = step.epoch * loaderLen + step.index

C10_Witness ==
    /\ StepDone
    /\ step.epoch = 1
    /\ step.index = 2
    /\ optSteps = loaderLen + 2
    /\ Len(step.ops) = 7

\* the last loop body printed a report and nothing ran since
JustReported == StepDone /\ step.reported /\ i = step.index /\ epoch = step.epoch

\* C11 as stated: every printed value is the mean of the losses of all the
\* steps executed since the previous report, or since the start of training
\* for the first report, also across an epoch boundary.
C11_MeanSincePreviousReport ==
    JustReported =>
        /\ step.line[1].sum = sinceReport.sum
        /\ step.line[1].div = sinceReport.steps

\* C11 amended: every printed value is the mean of the losses of the 2000
\* steps executed since the previous report of the same epoch, or since the
\* start of the current epoch for the epoch's first report.
C11_MeanSinceReportOrEpochStart ==
    JustReported =>
        /\ step.line[1].sum = sinceEpoch.sum
        /\ step.line[1].div = sinceEpoch.steps
        /\ sinceEpoch.steps = PrintEvery
        /\ step.line[1].epoch = step.epoch + 1

C11_Witness ==
    /\ JustReported
    /\ step.epoch = 1
    /\ loaderLen % PrintEvery # 0
    /\ sinceReport.steps > sinceEpoch.steps
    /\ step.line[1].sum = sinceEpoch.sum
    /\ step.line[1].sum > 0

\* loop bodies, epoch changes and the final print still ahead of a running
\* call of train
Remaining == (2 - epoch) * (loaderLen + 1) - i

\* C14: a call of train on a loader of N batches ends, after exactly 2 * N
\* loop bodies (one optimizer step per batch per epoch, two epochs), and
\* prints "Finished Training" exactly once, after the last step.  While the
\* call runs its position stays inside the two loops (where a loop body, an
\* epoch change or the final print is the next statement) and every step
\* brings the end one nearer, so the synchronous code reaches the end.
C14_Terminates ==
    /\ [](pc = "training" =>
            /\ finishedLines = 0
            /\ optSteps = epoch * loaderLen + i
            /\ Remaining >= 1
            /\ i \in 0..loaderLen
            /\ epoch \in 0..1)
    /\ [][(pc = "training" /\ pc' = "training") => Remaining' = Remaining - 1]_vars
    /\ [][(pc = "training" /\ pc' = "finished") => Remaining = 1]_vars
    /\ [](pc = "finished" =>
            /\ optSteps = 2 * loaderLen
            /\ finishedLines = 1
            /\ step.index = loaderLen
            /\ step.epoch = 1
            /\ step.optSteps = optSteps)

C14_Witness ==
    /\ pc = "finished"
    /\ loaderLen > PrintEvery
    /\ optSteps = 2 * loaderLen
    /\ finishedLines = 1

\* ------------------------------------------------- claims: BenchSpec
\* C12: when a timed call model(x) fails, compare_benchmarks ends there with
\* the failure: the variants and batches after the failing call are not
\* measured, no further input is generated, and no latency table is
\* printed, although earlier calls had been measured.
C12_FailureAborts ==
    lastOp = "compare_benchmarks raised" =>
        /\ benchCall.status = "raised"
        /\ latencyTable = <<>>
        /\ Len(results) = benchCall.failAt - 1
        /\ \A k \in 1..Len(results) :
              /\ results[k].batch = (k - 1) \div Len(models)
              /\ results[k].description = models[((k - 1) % Len(models)) + 1].name
        /\ Len(benchInputs) = ((benchCall.failAt - 1) \div Len(models)) + 1
        /\ Len(benchInputs) <= benchCall.batches

C12_Witness ==
    /\ lastOp = "compare_benchmarks raised"
    /\ Len(models) >= 2
    /\ benchCall.batches = 2
    /\ benchCall.failAt = Len(models) + 2
    /\ Len(results) = Len(models) + 1
    /\ latencyTable = <<>>

\* C13: every compare_benchmarks sets the seed once, before its first input
\* and not again in the batch loop, so its inputs are the seed's sequence;
\* two invocations with the same batch parameters generate the same input
\* for every batch index, whatever the registry holds.
C13_SeededInputs ==
    lastOp \in {"compare_benchmarks", "compare_benchmarks raised"} =>
        /\ \A b \in 1..Len(benchInputs) : benchInputs[b] = Randn(RngAfter(b - 1))
        /\ rng = RngAfter(Len(benchInputs))
        /\ prevBench.ran =>
              \A b \in 1..Len(benchInputs) :
                  b <= Len(prevBench.inputs) => benchInputs[b] = prevBench.inputs[b]
        /\ (prevBench.ran /\ prevBench.batches = benchCall.batches
              /\ Len(prevBench.inputs) = prevBench.batches
              /\ benchCall.status = "completed") => benchInputs = prevBench.inputs

C13_Witness ==
    /\ lastOp = "compare_benchmarks"
    /\ prevBench.ran
    /\ prevBench.batches = 2
    /\ benchCall.batches = 2
    /\ prevBench.variants # benchCall.variants
    /\ benchCall.rngBefore # ManualSeed
    /\ benchCall.rngBefore # RngAfter(2)
    /\ Len(benchInputs) = 2
    /\ benchInputs[1] # benchInputs[2]
    /\ benchInputs = prevBench.inputs

====
